---- MODULE Spec2Model ----
(***************************************************************************)
(* magiclip: the persistent subtitle scan cache (sub::db::SubDB), its      *)
(* staleness oracle (Entry::has_changed) and the selection / batch clip    *)
(* pipeline of main().                                                     *)
(*                                                                         *)
(* The specifications share the variables:                                 *)
(*   SpecOracle   Entry::has_changed applied to bounded inputs             *)
(*   SpecDB       a client calling lookup and lookup_or_update while the   *)
(*                file system and the clock change underneath              *)
(*   SpecPersist  a client calling lookup_or_update, save and load         *)
(*   Spec         one run of main()                                        *)
(*   SpecRuns     two runs of main() over the same backing file            *)
(*   SpecNames    the selection and the clip targets of long cue texts     *)
(*                and long paths                                           *)
(*   SpecDups     the sort / dedup / duplicate report of a selection       *)
(*   SpecScan     lookup_or_update over every outcome of a rescan          *)
(*   SpecWalk     populate_db over input paths, walked paths and symlinks  *)
(*   SpecClip     ffmpeg::clip on bounded cue times and encoder outcomes   *)
(***************************************************************************)
EXTENDS Integers, Sequences, FiniteSets, TLC

(***************************************************************************)
(* Bounds.  i64 nanosecond arithmetic is kept with its overflow, at a      *)
(* reduced width: I64Max stands for i64::MAX and NanosPerSec for           *)
(* 10i64.pow(9) (sub.rs:107).                                              *)
(***************************************************************************)
I64Max == 14

NanosPerSec == 2

MaxNow == 2

I64Min == -I64Max - 1

\* the largest seconds value whose multiplication still fits, and the first
\* that overflows
EdgeSec == I64Max \div NanosPerSec

FarSec == EdgeSec + 1

(***************************************************************************)
(* Option and Result values                                                *)
(***************************************************************************)
Some(v) == [some |-> TRUE, v |-> v]

NoneOpt == [some |-> FALSE]

Ok(v) == [ok |-> TRUE, val |-> v]

Err(e) == [ok |-> FALSE, err |-> e]

Max(a, b) == IF a >= b THEN a ELSE b

(***************************************************************************)
(* Paths (db::Key is the video path) and file system metadata              *)
(***************************************************************************)
P1 == <<"a">>

P2 == <<"b">>

Paths == {P1, P2}

\* std::fs::Metadata as far as the program reads it: the kind of the object
\* behind the path and its ctime / mtime as <<seconds, nanoseconds>>
AbsentMeta == [kind |-> "absent", ctime |-> <<0, 0>>, mtime |-> <<0, 0>>]

FileMeta(c, m) == [kind |-> "file", ctime |-> c, mtime |-> m]

\* a nanosecond clock value as the <<seconds, nanoseconds>> pair stat reports
SecNs(t) == <<t \div NanosPerSec, t % NanosPerSec>>

(***************************************************************************)
(* Entry::has_changed                                                      *)
(***************************************************************************)
checked_mul(a, b) == IF a * b \in I64Min..I64Max THEN Some(a * b) ELSE NoneOpt

checked_add(a, b) == IF a + b \in I64Min..I64Max THEN Some(a + b) ELSE NoneOpt

\* secs.checked_mul(10i64.pow(9)).and_then(|ts| ts.checked_add(nsec))
checked_nanos(t) ==
    LET m == checked_mul(t[1], NanosPerSec)
    IN  IF m.some THEN checked_add(m.v, t[2]) ELSE NoneOpt

relevant_timestamp(meta) ==
    LET ctime == checked_nanos(meta.ctime)
        mtime == checked_nanos(meta.mtime)
    IN  IF ~ctime.some THEN Err("nanos not fitting in i64")
        ELSE IF ~mtime.some THEN Err("nanos not fitting in i64")
        ELSE IF ~(ctime.v > 0) THEN Err("ensure ctime > 0")
        ELSE IF ~(mtime.v > 0) THEN Err("ensure mtime > 0")
        ELSE Ok(Max(ctime.v, mtime.v))

\* DateTime<Utc>::timestamp_nanos_opt: a DateTime holds more than i64 nanos
timestamp_nanos_opt(t) == IF t \in I64Min..I64Max THEN Some(t) ELSE NoneOpt

path_gone_exists_only(meta) == meta.kind = "absent"

\* !video_path.exists() || !video_path.is_file()
path_gone(meta) == meta.kind = "absent" \/ meta.kind # "file"

stale_cmp_gt(fs_relevant_timestamp, db_scan_nanos) ==
    fs_relevant_timestamp > db_scan_nanos

\* fs_relevant_timestamp >= db_scan_nanos
stale_cmp(fs_relevant_timestamp, db_scan_nanos) ==
    fs_relevant_timestamp >= db_scan_nanos

\* EntryChanged: "Yes" (stale), "No" (fresh), "Gone"
has_changed(entry, fsys) ==
    LET meta == fsys[entry.meta.video_path]
    IN  IF path_gone(meta) THEN Ok("Gone")
        ELSE LET db_scan_nanos == timestamp_nanos_opt(entry.meta.time)
             IN  IF ~db_scan_nanos.some THEN Err("nsec timestamp not in range")
                 ELSE LET ts == relevant_timestamp(meta)
                      IN  IF ~ts.ok THEN ts
                          ELSE IF stale_cmp(ts.val, db_scan_nanos.v)
                               THEN Ok("Yes")
                               ELSE Ok("No")

(***************************************************************************)
(* Text: a string is a sequence of one-character strings                   *)
(***************************************************************************)
Min(a, b) == IF a <= b THEN a ELSE b

\* "{s:.n$}": at most the first n characters
Take(s, n) == SubSeq(s, 1, Min(n, Len(s)))

\* str::replace: every non-overlapping match, left to right.  The patterns
\* of the code ("\r\n", "\n", "\r") cannot overlap themselves, so every
\* occurrence is a match.  Computed by position: At is the set of positions
\* where a match starts, Piece(i) what position i of s contributes to the
\* result and Before(i) the length of what the positions before i contribute.
Replace(s, pat, rep) ==
    LET n == Len(pat)
        At == {i \in 1..(Len(s) - n + 1) : SubSeq(s, i, i + n - 1) = pat}
        Inside(i) == \E j \in At : j < i /\ i < j + n
        Piece(i) == IF i \in At THEN rep
                    ELSE IF Inside(i) THEN <<>> ELSE <<s[i]>>
        Before(i) ==
            Len(rep) * Cardinality({j \in At : j < i})
                + Cardinality({j \in 1..(i - 1) : j \notin At /\ ~Inside(j)})
        Total == Before(Len(s) + 1)
    IN  IF At = {} THEN s
        ELSE [k \in 1..Total |->
                LET i == CHOOSE i \in 1..Len(s) :
                            Before(i) < k /\ k <= Before(i) + Len(Piece(i))
                IN  Piece(i)[k - Before(i)]]

\* the characters of the model in code point order, for String's Ord
Alphabet ==
    << "NUL", "\n", "\r", " ", "\"", "'", "(", ")", "*", ",", "-", "/",
       "0", "1", "2", "3", "4", "5", "6", "7", "8", "9", ":", "?",
       "H", "Y", "[", "]", "_", "a", "b", "i", "o", "|" >>

Rank(c) == CHOOSE i \in 1..Len(Alphabet) : Alphabet[i] = c

\* Ord of String: s is a proper prefix of t, or the first character in
\* which they differ is the smaller one in s
StrLess(s, t) ==
    \/ Len(s) < Len(t) /\ SubSeq(t, 1, Len(s)) = s
    \/ \E i \in 1..Min(Len(s), Len(t)) :
          /\ SubSeq(s, 1, i - 1) = SubSeq(t, 1, i - 1)
          /\ Rank(s[i]) < Rank(t[i])

StrLeq(s, t) == s = t \/ StrLess(s, t)

Digit(n) == <<"0", "1", "2", "3", "4", "5", "6", "7", "8", "9">>[n + 1]

Pad2(n) == <<Digit((n \div 10) % 10), Digit(n % 10)>>

Pad3(n) == <<Digit((n \div 100) % 10)>> \o Pad2(n % 100)

(***************************************************************************)
(* util::escape_for_unix_filename                                          *)
(***************************************************************************)
EscapedChars == {"/", "*", "?", ":", "|", "'", "\"", "NUL"}

escape_for_unix_filename(input) ==
    LET mapped == [i \in 1..Len(input) |->
                      IF input[i] \in EscapedChars THEN "_" ELSE input[i]]
        first == [i \in 1..Len(mapped) |->
                      IF i = 1 /\ mapped[i] = "-" THEN "_" ELSE mapped[i]]
        r1 == Replace(first, <<"\r", "\n">>, <<"_", "_", "_">>)
        r2 == Replace(r1, <<"\n">>, <<"_", "_", "_">>)
    IN  Replace(r2, <<"\r">>, <<"_", "_", "_">>)

(***************************************************************************)
(* Cues (srtlib::Subtitle) and Subtitle::as_identifying_string             *)
(***************************************************************************)
CLIP_FILENAME_TEXT_LEN == 64

CLIP_FILENAME_PATH_LEN == 128

\* stands for usize::MAX: no truncation
UsizeMax == 1000000

\* srtlib::Timestamp is <<hours, minutes, seconds, milliseconds>>
Timestamp(h, m, s, ms) == <<h, m, s, ms>>

\* derived Ord of the four fields, in order
RECURSIVE TupleLess(_, _)
TupleLess(a, b) ==
    IF a = <<>> THEN FALSE
    ELSE IF Head(a) = Head(b) THEN TupleLess(Tail(a), Tail(b))
    ELSE Head(a) < Head(b)

\* Display of a Timestamp: hh:mm:ss,mmm
TimestampDisplay(t) ==
    Pad2(t[1]) \o <<":">> \o Pad2(t[2]) \o <<":">> \o Pad2(t[3])
        \o <<",">> \o Pad3(t[4])

Cue(num, start, end, text) ==
    [num |-> num, start_time |-> start, end_time |-> end, text |-> text]

\* format_opts is "Filename" or "None" (the default)
as_identifying_string(sub, path, format_opts) ==
    LET line_len == IF format_opts = "Filename"
                    THEN CLIP_FILENAME_TEXT_LEN ELSE UsizeMax
        path_len == IF format_opts = "Filename"
                    THEN CLIP_FILENAME_PATH_LEN ELSE UsizeMax
    IN  escape_for_unix_filename(
            Take(sub.text, line_len) \o <<" ", "[">>
                \o TimestampDisplay(sub.start_time) \o <<"]", " ", "(">>
                \o Take(path, path_len) \o <<")">>)

(***************************************************************************)
(* What the videos hold: the cues of subtitle stream i of video p, as      *)
(* ffmpeg extracts and srtlib parses them.  Both streams of P1 carry the   *)
(* same line at the same start time (two renderings of one dialogue).      *)
(***************************************************************************)
TextHi == <<"H", "i">>

TextYo == <<"Y", "o">>

StreamCues(p, i) ==
    IF p = P1 /\ i = 0
        THEN << Cue(1, Timestamp(0, 0, 1, 0), Timestamp(0, 0, 2, 0), TextHi) >>
    ELSE IF p = P1
        THEN << Cue(1, Timestamp(0, 0, 1, 0), Timestamp(0, 0, 3, 0), TextHi) >>
    ELSE IF i = 0
        THEN << Cue(1, Timestamp(0, 0, 1, 0), Timestamp(0, 0, 2, 0), TextHi),
                Cue(2, Timestamp(0, 0, 4, 0), Timestamp(0, 0, 4, 0), TextYo) >>
    ELSE << >>

(***************************************************************************)
(* Entry::from_path and ffmpeg::extract_sub_files                          *)
(*                                                                         *)
(* What the external tools do on one scan is the input `outcome`:          *)
(* fail is "tempdir", "probe" (ffprobe fails in how_many_subs) or "none",  *)
(* and streams holds one of "ok", "extract_fail", "parse_fail" per         *)
(* subtitle stream of the video.                                           *)
(***************************************************************************)
SeqsUpTo(S, n) == UNION {[1..k -> S] : k \in 0..n}

RECURSIVE KeepIdx(_, _)
\* the 0-based indices i < Len(streams), in order, whose extraction succeeded:
\* flat_map over the per-stream Result drops every Err
KeepIdx(streams, i) ==
    IF i >= Len(streams) THEN <<>>
    ELSE (IF streams[i + 1] = "extract_fail" THEN <<>> ELSE <<i>>)
             \o KeepIdx(streams, i + 1)

\* Ok(the extracted files, named by their stream index) or Err
extract_sub_files(outcome) ==
    IF outcome.fail = "probe" THEN Err("ffprobe failed")
    ELSE Ok(KeepIdx(outcome.streams, 0))

Metadata(path, time) == [video_path |-> path, time |-> time]

InternalFFmpeg(stream_id) == [variant |-> "InternalFFmpeg", stream_id |-> stream_id]

MkEntry(path, time, sub_files) ==
    [meta |-> Metadata(path, time), sub_files |-> sub_files]

\* Ok([entry, errors]) or Err; scan_time is Utc::now() at the start
from_path(key, scan_time, outcome) ==
    IF outcome.fail = "tempdir" THEN Err("tempdir")
    ELSE LET subs == extract_sub_files(outcome)
         IN  IF ~subs.ok THEN Err("Extracting sub files")
             ELSE LET files == subs.val
                      \* enumerate(): stream_id is the position in `files`
                      parsed == [j \in 1..Len(files) |->
                                   IF outcome.streams[files[j] + 1] = "ok"
                                   THEN Ok(<<InternalFFmpeg(j - 1),
                                             StreamCues(key, files[j])>>)
                                   ELSE Err(<<"Parsing", files[j]>>)]
                      IsOk(r) == r.ok
                      IsErr(r) == ~r.ok
                      oks == SelectSeq(parsed, IsOk)
                      errs == SelectSeq(parsed, IsErr)
                  IN  Ok([entry |-> MkEntry(key, scan_time,
                                      [j \in 1..Len(oks) |-> oks[j].val]),
                          errors |-> [j \in 1..Len(errs) |-> errs[j].err]])

\* Entry::as_identifying_strings: one string per cue, in sub_files order
RECURSIVE FlatCues(_)
FlatCues(sub_files) ==
    IF sub_files = <<>> THEN <<>>
    ELSE Head(sub_files)[2] \o FlatCues(Tail(sub_files))

entry_as_identifying_strings(entry) ==
    LET cues == FlatCues(entry.sub_files)
    IN  [j \in 1..Len(cues) |->
            as_identifying_string(cues[j], entry.meta.video_path, "None")]

(***************************************************************************)
(* SubDB: the entry map (HashMap<Key, Arc<Entry>>) is a function whose     *)
(* domain is the set of keys present                                       *)
(***************************************************************************)
EmptyDB == [k \in {} |-> 0]

db_remove_clearing(d, key) == [k \in {} |-> 0]

\* HashMap::remove
db_remove(d, key) == [k \in DOMAIN d \ {key} |-> d[k]]

db_insert_keep_old(d, key, entry) ==
    [k \in DOMAIN d \cup {key} |-> IF k = key /\ key \notin DOMAIN d THEN entry ELSE d[k]]

\* HashMap::insert: the value under an existing key is replaced
db_insert(d, key, entry) ==
    [k \in DOMAIN d \cup {key} |-> IF k = key THEN entry ELSE d[k]]

\* EntryFound
FoundYes(entry) == [tag |-> "Yes", entry |-> entry]

YesButGone == [tag |-> "YesButGone"]

YesButChanged == [tag |-> "YesButChanged"]

FoundNo == [tag |-> "No"]

lookup_pruning(d, key, fsys) ==
    IF key \in DOMAIN d
    THEN LET changed == has_changed(d[key], fsys)
         IN  IF ~changed.ok THEN [ret |-> changed, db |-> d]
             ELSE IF changed.val = "Yes" THEN [ret |-> Ok(YesButChanged), db |-> d]
             ELSE IF changed.val = "No" THEN [ret |-> Ok(FoundYes(d[key])), db |-> d]
             ELSE [ret |-> Ok(YesButGone), db |-> db_remove(d, key)]
    ELSE [ret |-> Ok(FoundNo), db |-> d]

\* SubDB::lookup(&self, key): ret is the Result<EntryFound>, db the map after
\* the call
lookup(d, key, fsys) ==
    IF key \in DOMAIN d
    THEN LET changed == has_changed(d[key], fsys)
         IN  IF ~changed.ok THEN [ret |-> changed, db |-> d]
             ELSE IF changed.val = "Yes" THEN [ret |-> Ok(YesButChanged), db |-> d]
             ELSE IF changed.val = "No" THEN [ret |-> Ok(FoundYes(d[key])), db |-> d]
             ELSE [ret |-> Ok(YesButGone), db |-> d]
    ELSE [ret |-> Ok(FoundNo), db |-> d]

insert_remove_first(d, key, scan_time, outcome) ==
    LET new_entry == from_path(key, scan_time, outcome)
    IN  IF ~new_entry.ok
        THEN [ret |-> Err("creating DB entry from file"), db |-> db_remove(d, key),
              scanned |-> TRUE, warns |-> <<>>]
        ELSE LET d2 == db_insert(d, key, new_entry.val.entry)
             IN  [ret |-> Ok(d2[key]), db |-> d2,
                  scanned |-> TRUE, warns |-> new_entry.val.errors]

\* lookup_or_update::insert: ret is the Result<Val>, scanned tells that
\* Entry::from_path ran, warns are the per-source errors it logged
insert(d, key, scan_time, outcome) ==
    LET new_entry == from_path(key, scan_time, outcome)
    IN  IF ~new_entry.ok
        THEN [ret |-> Err("creating DB entry from file"), db |-> d,
              scanned |-> TRUE, warns |-> <<>>]
        ELSE LET d2 == db_insert(d, key, new_entry.val.entry)
             IN  [ret |-> Ok(d2[key]), db |-> d2,
                  scanned |-> TRUE, warns |-> new_entry.val.errors]

lookup_or_update_no_prune(d, key, fsys, scan_time, outcome) ==
    LET found == lookup(d, key, fsys)
    IN  IF ~found.ret.ok
        THEN [ret |-> found.ret, db |-> found.db, scanned |-> FALSE, warns |-> <<>>]
        ELSE IF found.ret.val.tag = "YesButGone"
        THEN [ret |-> Ok(NoneOpt), db |-> found.db,
              scanned |-> FALSE, warns |-> <<>>]
        ELSE IF found.ret.val.tag = "Yes"
        THEN [ret |-> Ok(Some(found.ret.val.entry)), db |-> found.db,
              scanned |-> FALSE, warns |-> <<>>]
        ELSE LET ins == insert(found.db, key, scan_time, outcome)
             IN  [ret |-> IF ins.ret.ok THEN Ok(Some(ins.ret.val)) ELSE ins.ret,
                  db |-> ins.db, scanned |-> ins.scanned, warns |-> ins.warns]

lookup_or_update_always_scan(d, key, fsys, scan_time, outcome) ==
    LET found == lookup(d, key, fsys)
    IN  IF ~found.ret.ok
        THEN [ret |-> found.ret, db |-> found.db, scanned |-> FALSE, warns |-> <<>>]
        ELSE IF found.ret.val.tag = "YesButGone"
        THEN [ret |-> Ok(NoneOpt), db |-> db_remove(found.db, key),
              scanned |-> FALSE, warns |-> <<>>]
        ELSE LET ins == insert(found.db, key, scan_time, outcome)
             IN  [ret |-> IF ins.ret.ok THEN Ok(Some(ins.ret.val)) ELSE ins.ret,
                  db |-> ins.db, scanned |-> ins.scanned, warns |-> ins.warns]

\* SubDB::lookup_or_update(&mut self, key): ret is the Result<Option<Val>>
lookup_or_update(d, key, fsys, scan_time, outcome) ==
    LET found == lookup(d, key, fsys)
    IN  IF ~found.ret.ok
        THEN [ret |-> found.ret, db |-> found.db, scanned |-> FALSE, warns |-> <<>>]
        ELSE IF found.ret.val.tag = "YesButGone"
        THEN [ret |-> Ok(NoneOpt), db |-> db_remove(found.db, key),
              scanned |-> FALSE, warns |-> <<>>]
        ELSE IF found.ret.val.tag = "Yes"
        THEN [ret |-> Ok(Some(found.ret.val.entry)), db |-> found.db,
              scanned |-> FALSE, warns |-> <<>>]
        ELSE LET ins == insert(found.db, key, scan_time, outcome)
             IN  [ret |-> IF ins.ret.ok THEN Ok(Some(ins.ret.val)) ELSE ins.ret,
                  db |-> ins.db, scanned |-> ins.scanned, warns |-> ins.warns]

(***************************************************************************)
(* The backing file and SubDB::save / SubDB::load                          *)
(*                                                                         *)
(* A JSON document is kept by what serde_json decides on: the schema tag,  *)
(* the shape of the tagged value ("object": a JSON object, one member per  *)
(* key; "array": an array of [key, entry] pairs; "unit": no value, the tag *)
(* alone), the key/entry pairs written, and whether the text is complete.  *)
(***************************************************************************)
CurrentTag == "0.2"

FAbsent == [kind |-> "absent"]

FDoc(tag, shape, pairs, complete) ==
    [kind |-> "json", tag |-> tag, shape |-> shape, pairs |-> pairs,
     complete |-> complete]

Panic(e) == [ok |-> FALSE, err |-> e, panic |-> TRUE]

IsPanic(r) == "panic" \in DOMAIN r

\* some order of the keys of the map: HashMap iteration order
KeyOrders(d) ==
    {s \in [1..Cardinality(DOMAIN d) -> DOMAIN d] :
        \A i, j \in DOMAIN s : i # j => s[i] # s[j]}

\* serde_json::to_writer_pretty(w, &SubDBVersioned::Current(map)): the variant
\* holds the HashMap itself, which serializes as a JSON object, and a JSON
\* object key must be a string: the struct Key is refused at the first entry,
\* after the opening of the document has been written
to_writer_pretty(d, order) ==
    IF DOMAIN d = {}
    THEN [doc |-> FDoc(CurrentTag, "object", <<>>, TRUE), ret |-> Ok("unit")]
    ELSE [doc |-> FDoc(CurrentTag, "object", <<>>, FALSE),
          ret |-> Err("key must be a string")]

\* SubDB::save(&self): create_ok tells whether File::create succeeds
save(d, order, oldfile, create_ok) ==
    IF ~create_ok THEN [file |-> oldfile, ret |-> Err("File::create")]
    ELSE LET w == to_writer_pretty(d, order)
         IN  [file |-> w.doc, ret |-> w.ret]

from_reader_downgrading(doc) ==
    IF ~doc.complete THEN Err("EOF while parsing")
    ELSE IF doc.shape = "object" /\ doc.pairs = <<>> THEN Ok(EmptyDB)
    ELSE Err("invalid type")

\* serde_json::from_reader::<SubDBVersioned>, then the match of load
from_reader(doc) ==
    IF ~doc.complete THEN Err("EOF while parsing")
    ELSE IF doc.tag = CurrentTag
    THEN IF doc.shape = "object"
         THEN IF doc.pairs = <<>> THEN Ok(EmptyDB)
              ELSE Err("invalid type: string, expected struct Key")
         ELSE IF doc.shape = "array"
         THEN Err("invalid type: sequence, expected a map")
         ELSE Err("invalid type: unit variant, expected newtype variant")
    \* #[serde(other)] Unsupported is a unit variant
    ELSE IF doc.shape = "unit" THEN Panic("Wrong version in DB file detected")
    ELSE Err("invalid type, expected unit")

\* SubDB::load(db_file): Ok(the entry map), Err or a panic
load(f, open_ok) ==
    IF f.kind = "absent" THEN Ok(EmptyDB)
    ELSE IF ~open_ok THEN Err("File::open")
    ELSE from_reader(f)

(***************************************************************************)
(* State                                                                   *)
(***************************************************************************)
VARIABLES
    now,    \* the clock, in nanoseconds: what Utc::now() returns
    fs,     \* the file system: Metadata of every path
    db,     \* SubDB.db, the entry map
    file,   \* the content of the backing file SubDB.db_path
    last,   \* the latest call of a SubDB operation and what it returned
    pc,     \* position of main()
    status, \* how main() ended: "running", "ok", "err", "panic"
    todo,   \* populate_db: the candidate paths not yet visited
    scan_log,       \* populate_db: the Result per candidate visited
    search_map,     \* main: Vec<(&Key, String)>
    selected,       \* what fzf::select returned
    search_results, \* main: the sorted (count, string) list, then the
                    \* resolved (key, line) list
    dup_reports,    \* the "appeared more than once" errors logged
    workers,        \* one record per item of the clip phase
    clip_errors,    \* per item, how often "One of the clips failed" was logged
    outfiles,       \* the clip files that exist
    saves           \* how often SubDB::save ran

envVars == <<now, fs>>

storeVars == <<db, file>>

mainVars ==
    <<pc, status, todo, scan_log, search_map, selected, search_results,
      dup_reports, workers, clip_errors, outfiles, saves>>

vars == <<now, fs, db, file, last, mainVars>>

NoKey == <<>>

\* Nanoseconds of a <<seconds, nanoseconds>> pair, as a number
Nanos(t) == t[1] * NanosPerSec + t[2]

\* both timestamps are positive and fit the i64
Representable(meta) ==
    /\ Nanos(meta.ctime) \in 1..I64Max
    /\ Nanos(meta.mtime) \in 1..I64Max

\* the later of ctime and mtime
RelevantNs(meta) == Max(Nanos(meta.ctime), Nanos(meta.mtime))

\* What the specification calls the state of key in a store, given the files
Classify(d, key, fsys) ==
    IF key \notin DOMAIN d THEN "NotPresent"
    ELSE IF fsys[key].kind # "file" THEN "Gone"
    ELSE IF d[key].meta.time \notin I64Min..I64Max \/ ~Representable(fsys[key])
         THEN "Error"
    ELSE IF RelevantNs(fsys[key]) >= d[key].meta.time THEN "Stale"
    ELSE "Fresh"

\* the record of one call: n flips with every call; cls is the state of key
\* before the call; scanned tells that Entry::from_path ran in it; touched
\* that the file behind key was written, deleted or re-dated after the call;
\* again that the call repeats the call before it, a lookup_or_update of the
\* same key that returned an entry, with the file not touched in between;
\* saved is the map a save was called on (its File::create succeeding) and,
\* for a load (its File::open succeeding) that directly follows such a save,
\* the map of that save
Call(op, key, ret, scanned) ==
    [n |-> 1 - last.n, op |-> op, key |-> key, ret |-> ret,
     cls |-> IF key \in Paths THEN Classify(db, key, fs) ELSE "-",
     scanned |-> scanned, touched |-> FALSE,
     again |-> /\ op = "lookup_or_update"
               /\ last.op = "lookup_or_update"
               /\ last.key = key
               /\ ~last.touched
               /\ last.ret.ok
               /\ last.ret.val.some,
     saved |-> NoneOpt]

NoCall ==
    [n |-> 0, op |-> "none", key |-> NoKey, ret |-> Ok("unit"), cls |-> "-",
     scanned |-> FALSE, touched |-> FALSE, again |-> FALSE, saved |-> NoneOpt]

MainIdle ==
    /\ pc = "idle"
    /\ status = "running"
    /\ todo = <<>>
    /\ scan_log = <<>>
    /\ search_map = <<>>
    /\ selected = <<>>
    /\ search_results = <<>>
    /\ dup_reports = <<>>
    /\ workers = <<>>
    /\ clip_errors = <<>>
    /\ outfiles = {}
    /\ saves = 0

(***************************************************************************)
(* The environment: the clock and the video files                          *)
(***************************************************************************)
Tick ==
    /\ now < MaxNow
    /\ now' = now + 1
    /\ UNCHANGED fs

\* a file is written (created, or its content replaced)
Touch(p) ==
    /\ fs[p].kind # "dir"
    /\ fs' = [fs EXCEPT ![p] = FileMeta(SecNs(now), SecNs(now))]
    /\ UNCHANGED now

\* mtimes a file can be given (utimes): the epoch, a date ahead of the clock
ZeroTime == <<0, 0>>

FutureTime == SecNs(MaxNow + 1)

SetMtime(p, m) ==
    /\ fs[p].kind = "file"
    /\ fs[p].mtime # m
    /\ fs' = [fs EXCEPT ![p] = FileMeta(SecNs(now), m)]
    /\ UNCHANGED now

Delete(p) ==
    /\ fs[p].kind # "absent"
    /\ fs' = [fs EXCEPT ![p] = AbsentMeta]
    /\ UNCHANGED now

(***************************************************************************)
(* SpecOracle: Entry::has_changed on every entry time and file metadata    *)
(* of the bounded sets                                                     *)
(***************************************************************************)
OracleSecs == {-1, 0, 1, EdgeSec, FarSec}

OracleTimes == OracleSecs \X (0..NanosPerSec - 1)

\* scan times: clock values, the last that fits and the first that does not
OracleScanTimes == 1..(MaxNow + 1) \cup {I64Max, I64Max + 1}

OracleMetas ==
    {AbsentMeta}
        \cup {[kind |-> k, ctime |-> c, mtime |-> m] :
                k \in {"dir", "file"}, c \in OracleTimes, m \in OracleTimes}

OracleInit ==
    /\ now = 1
    /\ fs \in {[p \in Paths |-> IF p = P1 THEN m ELSE AbsentMeta] : m \in OracleMetas}
    /\ db \in {[k \in {P1} |-> MkEntry(P1, t, <<>>)] : t \in OracleScanTimes}
    /\ file = FAbsent
    /\ last = NoCall
    /\ MainIdle

OracleClassify ==
    /\ last.op = "none"
    /\ last' = Call("has_changed", P1, has_changed(db[P1], fs), FALSE)
    /\ UNCHANGED <<envVars, storeVars, mainVars>>

OracleNext == OracleClassify

SpecOracle == OracleInit /\ [][OracleNext]_vars

(***************************************************************************)
(* SpecDB: a client calls lookup and lookup_or_update while the video      *)
(* files and the clock change.  Odd mtimes are given to P1 only.           *)
(***************************************************************************)
DBInit ==
    /\ now = 1
    /\ fs = [p \in Paths |-> AbsentMeta]
    /\ db = EmptyDB
    /\ file = FAbsent
    /\ last = NoCall
    /\ MainIdle

Touched(p) == [last EXCEPT !.touched = @ \/ p = last.key]

DBEnv ==
    /\ \/ Tick /\ UNCHANGED last
       \/ \E p \in Paths : Touch(p) /\ last' = Touched(p)
       \/ \E m \in {ZeroTime, FutureTime} : SetMtime(P1, m) /\ last' = Touched(P1)
       \/ \E p \in Paths : Delete(p) /\ last' = Touched(p)
    /\ UNCHANGED <<storeVars, mainVars>>

DBLookup(key) ==
    LET r == lookup(db, key, fs)
    IN  /\ last' = Call("lookup", key, r.ret, FALSE)
        /\ db' = r.db
        /\ UNCHANGED <<envVars, file, mainVars>>

\* ffprobe exits with an error on a path that is no regular file
Feasible(outcome, key) == fs[key].kind # "file" => outcome.fail # "none"

DBLookupOrUpdate(key, outcome) ==
    LET r == lookup_or_update(db, key, fs, now, outcome)
    IN  /\ Feasible(outcome, key)
        /\ last' = Call("lookup_or_update", key, r.ret, r.scanned)
        /\ db' = r.db
        /\ UNCHANGED <<envVars, file, mainVars>>

\* what a scan meets here: ffprobe failing, one stream that parses, one
\* stream that does not
DBScanOutcomes ==
    {[fail |-> "probe", streams |-> <<>>],
     [fail |-> "none", streams |-> <<"ok">>],
     [fail |-> "none", streams |-> <<"parse_fail">>]}

DBNext ==
    \/ DBEnv
    \/ \E k \in Paths : DBLookup(k)
    \/ \E k \in Paths : \E o \in DBScanOutcomes : DBLookupOrUpdate(k, o)

SpecDB == DBInit /\ [][DBNext]_vars

(***************************************************************************)
(* SpecPersist: a store is filled, saved, and loaded again from the same   *)
(* backing path.  The video files exist and are not touched.               *)
(***************************************************************************)
PersistInit ==
    /\ now = 1
    /\ fs = [p \in Paths |-> FileMeta(SecNs(1), SecNs(1))]
    /\ db = EmptyDB
    /\ file = FAbsent
    /\ last = NoCall
    /\ MainIdle

PersistTick ==
    /\ Tick
    /\ UNCHANGED <<storeVars, last, mainVars>>

PersistLookupOrUpdate(key, outcome) == DBLookupOrUpdate(key, outcome)

PersistSave(order, create_ok) ==
    LET r == save(db, order, file, create_ok)
    IN  /\ last' = [Call("save", NoKey, r.ret, FALSE)
                       EXCEPT !.saved = IF create_ok THEN Some(db) ELSE NoneOpt]
        /\ file' = r.file
        /\ UNCHANGED <<envVars, db, mainVars>>

\* a second store is loaded from the backing path: last.ret is
\* Ok(its entry map), Err or a panic
PersistLoad(open_ok) ==
    /\ last' = [Call("load", NoKey, load(file, open_ok), FALSE)
                   EXCEPT !.saved = IF last.op = "save" /\ open_ok
                                    THEN last.saved ELSE NoneOpt]
    /\ UNCHANGED <<envVars, storeVars, mainVars>>

PersistNext ==
    \/ PersistTick
    \/ \E k \in Paths : \E o \in DBScanOutcomes : PersistLookupOrUpdate(k, o)
    \/ \E o \in KeyOrders(db) : \E c \in BOOLEAN : PersistSave(o, c)
    \/ \E c \in BOOLEAN : PersistLoad(c)

SpecPersist == PersistInit /\ [][PersistNext]_vars

(***************************************************************************)
(* ffmpeg::clip and _clip, on the set of clip files that exist.            *)
(* enc_ok tells whether the encoder exits with success.                    *)
(***************************************************************************)
ClipArgs(infile, outfile, start, end) ==
    [infile |-> infile, outfile |-> outfile, start |-> start, end |-> end]

\* "{h:02}:{m:02}:{s:02}.{ms:03}"
timestamp_to_string(t) ==
    Pad2(t[1]) \o <<":">> \o Pad2(t[2]) \o <<":">> \o Pad2(t[3])
        \o <<".">> \o Pad3(t[4])

Millis(t) == ((t[1] * 60 + t[2]) * 60 + t[3]) * 1000 + t[4]

FromMillis(n) ==
    Timestamp(n \div 3600000, (n \div 60000) % 60, (n \div 1000) % 60, n % 1000)

\* duration.sub(&start), for a start that is not after the duration
timestamp_sub(duration, start) == FromMillis(Millis(duration) - Millis(start))

\* what the ffmpeg child does: it ends with status 0 and the output written
\* ("ok"), ends non-zero having written a part of the output ("partial") or
\* nothing ("nothing"), or cannot be started ("spawn")
EncOutcomes == {"ok", "partial", "nothing", "spawn"}

\* the command line of _clip: -ss start -i infile -t duration ... outfile
EncoderRequest(infile, outfile, start, duration) ==
    [infile |-> infile, outfile |-> outfile, ss |-> start, t |-> duration]

\* the files after the child has ended
run_encoder(req, files, enc) ==
    IF enc \in {"ok", "partial"} THEN files \cup {req.outfile} ELSE files

clip_inner_unguarded(req, files, enc) ==
    IF enc = "ok"
    THEN [ret |-> Ok("unit"), files |-> run_encoder(req, files, enc),
          enc |-> "ok", req |-> Some(req)]
    ELSE [ret |-> Err("encoder failed"), files |-> run_encoder(req, files, enc),
          enc |-> "fail", req |-> Some(req)]

\* _clip: the scopeguard removes the output file unless the encoder succeeded
clip_inner(req, files, enc) ==
    IF enc = "ok"
    THEN [ret |-> Ok("unit"), files |-> run_encoder(req, files, enc),
          enc |-> "ok", req |-> Some(req)]
    ELSE [ret |-> Err("encoder failed"),
          files |-> run_encoder(req, files, enc) \ {req.outfile},
          enc |-> "fail", req |-> Some(req)]

clip_ensure_ge(args, files, enc) ==
    IF TupleLess(args.end, args.start)
    THEN [ret |-> Err("ensure end > start"), files |-> files, enc |-> "-",
          req |-> NoneOpt]
    ELSE clip_inner(EncoderRequest(args.infile, args.outfile,
                        timestamp_to_string(args.start),
                        timestamp_to_string(timestamp_sub(args.end, args.start))),
                    files, enc)

\* clip: ensure!(end > start), then _clip with start and end - start as
\* strings
clip(args, files, enc) ==
    IF ~TupleLess(args.start, args.end)
    THEN [ret |-> Err("ensure end > start"), files |-> files, enc |-> "-",
          req |-> NoneOpt]
    ELSE clip_inner(EncoderRequest(args.infile, args.outfile,
                        timestamp_to_string(args.start),
                        timestamp_to_string(timestamp_sub(args.end, args.start))),
                    files, enc)

(***************************************************************************)
(* main(): sorting, duplicate detection and correlation                    *)
(***************************************************************************)
RECURSIVE InsertSorted(_, _)
InsertSorted(sorted, x) ==
    IF sorted = <<>> THEN <<x>>
    ELSE IF StrLeq(x, Head(sorted)) THEN <<x>> \o sorted
    ELSE <<Head(sorted)>> \o InsertSorted(Tail(sorted), x)

par_sort_skipped(strs) == strs

RECURSIVE par_sort(_)
\* search_results.as_mut_slice().par_sort()
par_sort(strs) ==
    IF strs = <<>> THEN <<>>
    ELSE InsertSorted(par_sort(Tail(strs)), Head(strs))

RECURSIVE dedup_with_count(_)
\* itertools dedup_with_count: one (count, item) per run of equal neighbours
dedup_with_count(strs) ==
    IF strs = <<>> THEN <<>>
    ELSE LET rest == dedup_with_count(Tail(strs))
         IN  IF rest # <<>> /\ rest[1][2] = Head(strs)
             THEN <<<<rest[1][1] + 1, Head(strs)>>>> \o Tail(rest)
             ELSE <<<<1, Head(strs)>>>> \o rest

\* the (count, string) pairs with count > 1: one error! each
IsDup(pair) == pair[1] > 1

duplicates(counted) == SelectSeq(counted, IsDup)

\* whether main() stops after reporting the duplicates: it does not, lines
\* 89-91 only log
aborts_batch(counted) == FALSE

\* search_map.iter().find(|(_, str)| str == s): the first match
find_in_search_map(map, str) ==
    IF \E i \in DOMAIN map : map[i][2] = str
    THEN Some(map[CHOOSE i \in DOMAIN map :
                    /\ map[i][2] = str
                    /\ \A j \in DOMAIN map : map[j][2] = str => i <= j])
    ELSE NoneOpt

RECURSIVE ConcatAll(_)
ConcatAll(seqs) ==
    IF seqs = <<>> THEN <<>> ELSE Head(seqs) \o ConcatAll(Tail(seqs))

\* SubDB::as_identifying_strings, collected: the entries in the order the
\* HashMap yields them, the strings of an entry in cue order
as_identifying_strings(d, order) ==
    ConcatAll([i \in DOMAIN order |->
        LET strs == entry_as_identifying_strings(d[order[i]])
        IN  [j \in DOMAIN strs |-> <<order[i], strs[j]>>]])

(***************************************************************************)
(* main(): one item of the clip phase                                      *)
(***************************************************************************)
Worker(key, line) ==
    [key |-> key, line |-> line, st |-> "ready", found |-> "-",
     entry |-> NoneOpt, args |-> NoneOpt, enc |-> "-", res |-> "-"]

revalidate_trusting(d, key, fsys) ==
    IF key \in DOMAIN d /\ fsys[key].kind = "file" THEN Ok(d[key])
    ELSE Err("file changed")

\* lines 110-114: Ok(the entry) for Yes only
revalidate(d, key, fsys) ==
    LET found == lookup(d, key, fsys).ret
    IN  IF ~found.ok THEN found
        ELSE IF found.val.tag = "Yes" THEN Ok(found.val.entry)
        ELSE IF found.val.tag \in {"YesButGone", "YesButChanged"}
             THEN Err("file changed")
        ELSE Panic("LOGIC ERROR: map does not know the key")

\* the cues of the entry that render to the line: find_any returns any
matching_cues(entry, key, line) ==
    LET cues == FlatCues(entry.sub_files)
    IN  {cues[j] : j \in {j \in DOMAIN cues :
            as_identifying_string(cues[j], key, "None") = line}}

runs_until_first_error(ws, i) == \A j \in DOMAIN ws : ws[j].res # "err"

\* par_iter().map(..).for_each(..): every item is run, whatever the others
\* returned
runs_item(ws, i) == TRUE

(***************************************************************************)
(* Spec: one run of main()                                                 *)
(***************************************************************************)
MaxSelect == 2

\* the candidates of the directory walk: each file once, in any order
Candidates == {q \in SeqsUpTo(Paths, Cardinality(Paths)) :
                 \A i, j \in DOMAIN q : i # j => q[i] # q[j]}

\* what a scan meets here: ffprobe failing, every stream extracted and
\* parsed
MainScanOutcomes ==
    {[fail |-> "probe", streams |-> <<>>],
     [fail |-> "none", streams |-> <<"ok", "ok">>]}

\* the backing file a run can meet: none, the empty store of an earlier
\* run, the text a failed save left, a file of another schema version,
\* its tag alone ("0.1" or {"0.1": null}) or with a map under it
InitFiles ==
    {FAbsent,
     FDoc(CurrentTag, "object", <<>>, TRUE),
     FDoc(CurrentTag, "object", <<>>, FALSE),
     FDoc("0.1", "unit", <<>>, TRUE),
     FDoc("0.1", "object", <<>>, TRUE)}

Init ==
    /\ now = MaxNow
    /\ fs = [p \in Paths |-> FileMeta(SecNs(1), SecNs(1))]
    /\ db = EmptyDB
    /\ file \in InitFiles
    /\ last = NoCall
    /\ pc = "load"
    /\ status = "running"
    /\ todo \in Candidates
    /\ scan_log = <<>>
    /\ search_map = <<>>
    /\ selected = <<>>
    /\ search_results = <<>>
    /\ dup_reports = <<>>
    /\ workers = <<>>
    /\ clip_errors = <<>>
    /\ outfiles = {}
    /\ saves = 0

DropWithoutSave(order, create_ok) == UNCHANGED <<file, saves>>

\* impl Drop for SubDB: save, a failure is only logged
Drop(order, create_ok) ==
    /\ file' = save(db, order, file, create_ok).file
    /\ saves' = saves + 1

\* the files change while main() runs: a video is rewritten, deleted or given
\* the epoch as its mtime.  A change during the selection is seen by the run
\* as the same change at the start of the clip phase.
MainEnv ==
    /\ pc \in {"scan", "clip"}
    /\ \/ \E p \in Paths : fs[p].kind = "file" /\ Touch(p)
       \/ \E p \in Paths : Delete(p)
       \/ SetMtime(P1, ZeroTime)
    /\ fs' # fs
    /\ UNCHANGED <<storeVars, last, mainVars>>

LoadDropping(open_ok) ==
    /\ pc = "load"
    /\ LET r == load(file, open_ok)
       IN  IF r.ok
           THEN /\ db' = r.val /\ pc' = "scan"
                /\ UNCHANGED <<status, file, saves>>
           ELSE /\ pc' = "exit"
                /\ status' = IF IsPanic(r) THEN "panic" ELSE "err"
                /\ file' = save(db, <<>>, file, TRUE).file
                /\ saves' = saves + 1
                /\ UNCHANGED db
    /\ UNCHANGED <<envVars, last, todo, scan_log, search_map, selected,
                   search_results, dup_reports, workers, clip_errors,
                   outfiles>>

\* line 49
Load(open_ok) ==
    /\ pc = "load"
    /\ LET r == load(file, open_ok)
       IN  IF r.ok
           THEN db' = r.val /\ pc' = "scan" /\ UNCHANGED status
           ELSE /\ pc' = "exit"
                /\ status' = IF IsPanic(r) THEN "panic" ELSE "err"
                /\ UNCHANGED db
    /\ UNCHANGED <<envVars, file, last, todo, scan_log, search_map, selected,
                   search_results, dup_reports, workers, clip_errors,
                   outfiles, saves>>

\* populate_db, one candidate of the lazy iterator: lookup_or_update, its
\* Result collected
ScanStep(outcome) ==
    /\ pc = "scan"
    /\ todo # <<>>
    /\ LET key == Head(todo)
           r == lookup_or_update(db, key, fs, now, outcome)
       IN  /\ Feasible(outcome, key)
           /\ db' = r.db
           /\ scan_log' = Append(scan_log, r.ret.ok)
    /\ todo' = Tail(todo)
    /\ UNCHANGED <<envVars, file, last, pc, status, search_map, selected,
                   search_results, dup_reports, workers, clip_errors,
                   outfiles, saves>>

\* lines 77-78
Strings(order) ==
    /\ pc = "scan"
    /\ todo = <<>>
    /\ search_map' = as_identifying_strings(db, order)
    /\ pc' = "select"
    /\ UNCHANGED <<envVars, storeVars, last, status, todo, scan_log, selected,
                   search_results, dup_reports, workers, clip_errors,
                   outfiles, saves>>

\* line 80, fzf failing or exiting non-zero: main returns the error, the
\* store is dropped
SelectFails(order, create_ok) ==
    /\ pc = "select"
    /\ Drop(order, create_ok)
    /\ pc' = "exit"
    /\ status' = "err"
    /\ UNCHANGED <<envVars, db, last, todo, scan_log, search_map, selected,
                   search_results, dup_reports, workers, clip_errors,
                   outfiles>>

\* line 80, fzf -m returning the lines chosen, some of the lines it was given
Select(chosen) ==
    /\ pc = "select"
    /\ chosen # {}
    /\ LET idx == CHOOSE q \in [1..Cardinality(chosen) -> chosen] :
                     \A i, j \in DOMAIN q : i < j => q[i] < q[j]
       IN  selected' = [i \in DOMAIN idx |-> search_map[idx[i]][2]]
    /\ pc' = "sort"
    /\ UNCHANGED <<envVars, storeVars, last, status, todo, scan_log,
                   search_map, search_results, dup_reports, workers,
                   clip_errors, outfiles, saves>>

\* lines 86-91
SortDedup(order, create_ok) ==
    /\ pc = "sort"
    /\ LET counted == dedup_with_count(par_sort(selected))
       IN  /\ search_results' = counted
           /\ dup_reports' = duplicates(counted)
           /\ IF aborts_batch(counted)
              THEN /\ Drop(order, create_ok)
                   /\ pc' = "exit"
                   /\ status' = "err"
              ELSE /\ pc' = "resolve"
                   /\ UNCHANGED <<file, saves, status>>
    /\ UNCHANGED <<envVars, db, last, todo, scan_log, search_map, selected,
                   workers, clip_errors, outfiles>>

\* lines 93-105
Resolve(order, create_ok) ==
    /\ pc = "resolve"
    /\ LET hits == [i \in DOMAIN search_results |->
                       find_in_search_map(search_map, search_results[i][2])]
       IN  IF \A i \in DOMAIN hits : hits[i].some
           THEN /\ search_results' = [i \in DOMAIN hits |-> hits[i].v]
                /\ workers' = [i \in DOMAIN hits |->
                                  Worker(hits[i].v[1], hits[i].v[2])]
                /\ clip_errors' = [i \in DOMAIN hits |-> 0]
                /\ pc' = "clip"
                /\ UNCHANGED <<file, saves, status>>
           ELSE /\ Drop(order, create_ok)
                /\ pc' = "exit"
                /\ status' = "panic"
                /\ UNCHANGED <<search_results, workers, clip_errors>>
    /\ UNCHANGED <<envVars, db, last, todo, scan_log, search_map, selected,
                   dup_reports, outfiles>>

\* lines 109-120 of one item: re-validation, the cue, the output file
WorkerPrepare(i) ==
    /\ pc = "clip"
    /\ i \in DOMAIN workers
    /\ workers[i].st = "ready"
    /\ runs_item(workers, i)
    /\ LET w == workers[i]
           found == lookup(db, w.key, fs).ret
           tag == IF found.ok THEN found.val.tag ELSE "Err"
           target_entry == revalidate(db, w.key, fs)
       IN  IF target_entry.ok
           THEN \E target_sub \in matching_cues(target_entry.val, w.key, w.line) :
                  /\ workers' = [workers EXCEPT ![i] =
                        [w EXCEPT !.st = "validated", !.found = tag,
                            !.entry = Some(target_entry.val),
                            !.args = Some(ClipArgs(
                                target_entry.val.meta.video_path,
                                as_identifying_string(target_sub,
                                    target_entry.val.meta.video_path, "Filename"),
                                target_sub.start_time, target_sub.end_time))]]
                  /\ UNCHANGED <<clip_errors, status>>
           ELSE /\ workers' = [workers EXCEPT ![i] =
                      [w EXCEPT !.st = "done", !.found = tag, !.res = "err"]]
                /\ clip_errors' = [clip_errors EXCEPT ![i] = @ + 1]
                /\ status' = IF IsPanic(target_entry) THEN "panic" ELSE status
    /\ db' = lookup(db, workers[i].key, fs).db
    /\ UNCHANGED <<envVars, file, last, pc, todo, scan_log, search_map,
                   selected, search_results, dup_reports, outfiles, saves>>

\* lines 122-127 of one item: ffmpeg::clip, and the error logged by for_each.
\* The encoder cannot succeed on a source that is no regular file.
WorkerClip(i, enc) ==
    /\ pc = "clip"
    /\ i \in DOMAIN workers
    /\ workers[i].st = "validated"
    /\ enc = "ok" => fs[workers[i].args.v.infile].kind = "file"
    /\ LET w == workers[i]
           r == clip(w.args.v, outfiles, enc)
       IN  /\ workers' = [workers EXCEPT ![i] =
                 [w EXCEPT !.st = "done", !.enc = r.enc,
                     !.res = IF r.ret.ok THEN "ok" ELSE "err"]]
           /\ outfiles' = r.files
           /\ clip_errors' = IF r.ret.ok THEN clip_errors
                             ELSE [clip_errors EXCEPT ![i] = @ + 1]
    /\ UNCHANGED <<envVars, storeVars, last, pc, status, todo, scan_log,
                   search_map, selected, search_results, dup_reports, saves>>

\* line 128: every item that is run has ended; main returns Ok and the store
\* is dropped
Finish(order, create_ok) ==
    /\ pc = "clip"
    /\ \A i \in DOMAIN workers :
          \/ workers[i].st = "done"
          \/ workers[i].st = "ready" /\ ~runs_item(workers, i)
    /\ Drop(order, create_ok)
    /\ pc' = "exit"
    /\ status' = IF status = "panic" THEN "panic" ELSE "ok"
    /\ UNCHANGED <<envVars, db, last, todo, scan_log, search_map, selected,
                   search_results, dup_reports, workers, clip_errors,
                   outfiles>>

Next ==
    \/ MainEnv
    \/ \E c \in BOOLEAN : Load(c)
    \/ \E o \in MainScanOutcomes : ScanStep(o)
    \/ \E o \in KeyOrders(db) : Strings(o)
    \/ \E o \in KeyOrders(db) : \E c \in BOOLEAN : SelectFails(o, c)
    \/ \E chosen \in SUBSET (DOMAIN search_map) : 
          Cardinality(chosen) <= MaxSelect /\ Select(chosen)
    \/ \E o \in KeyOrders(db) : \E c \in BOOLEAN : SortDedup(o, c)
    \/ \E o \in KeyOrders(db) : \E c \in BOOLEAN : Resolve(o, c)
    \/ \E i \in DOMAIN workers : WorkerPrepare(i)
    \/ \E i \in DOMAIN workers : \E c \in EncOutcomes : WorkerClip(i, c)
    \/ \E o \in KeyOrders(db) : \E c \in BOOLEAN : Finish(o, c)

Spec == Init /\ [][Next]_vars

(***************************************************************************)
(* SpecRuns: two runs of main() on the same backing file, one after the    *)
(* other.  The steps of a run between the scan and the return (lines       *)
(* 75-128) leave the store alone and are one step here; the file system    *)
(* lets the backing file be opened and created.                            *)
(***************************************************************************)
RunsInit ==
    /\ Init
    /\ file = FAbsent

\* main() returns and the store is dropped; last.saved is the map saved
RunEnd(order) ==
    /\ pc = "scan"
    /\ todo = <<>>
    /\ Drop(order, TRUE)
    /\ pc' = "exit"
    /\ status' = "ok"
    /\ last' = [NoCall EXCEPT !.op = "run", !.n = last.n, !.saved = Some(db)]
    /\ UNCHANGED <<envVars, db, todo, scan_log, search_map, selected,
                   search_results, dup_reports, workers, clip_errors,
                   outfiles>>

\* the program is started again, later, on the same backing file
RunAgain(paths) ==
    /\ pc = "exit"
    /\ status = "ok"
    /\ last.op = "run"
    /\ last.n = 0
    /\ last' = [last EXCEPT !.n = 1]
    /\ now' = now + 1
    /\ pc' = "load"
    /\ status' = "running"
    /\ todo' = paths
    /\ scan_log' = <<>>
    /\ db' = EmptyDB
    /\ UNCHANGED <<fs, file, search_map, selected, search_results,
                   dup_reports, workers, clip_errors, outfiles, saves>>

RunsNext ==
    \/ MainEnv
    \/ Load(TRUE)
    \/ \E o \in MainScanOutcomes : ScanStep(o)
    \/ \E o \in KeyOrders(db) : RunEnd(o)
    \/ \E paths \in Candidates : RunAgain(paths)

SpecRuns == RunsInit /\ [][RunsNext]_vars

(***************************************************************************)
(* SpecNames: the selection and the naming of the clips, from the end of   *)
(* the scan to the call of ffmpeg::clip, on stores whose cue texts and     *)
(* video paths reach beyond the lengths the file name keeps.               *)
(***************************************************************************)
\* n times "a", then c
LongString(n, c) == [i \in 1..(n + 1) |-> IF i <= n THEN "a" ELSE c]

NameTexts ==
    {TextHi, LongString(CLIP_FILENAME_TEXT_LEN, "a"),
     LongString(CLIP_FILENAME_TEXT_LEN, "b")}

NamePaths ==
    {P1, LongString(CLIP_FILENAME_PATH_LEN, "a"),
     LongString(CLIP_FILENAME_PATH_LEN, "b")}

NameCue(num, text) ==
    Cue(num, Timestamp(0, 0, 1, 0), Timestamp(0, 0, 2, 0), text)

NameEntry(path, cues) ==
    MkEntry(path, MaxNow, <<<<InternalFFmpeg(0), cues>>>>)

DistinctPairs(S) == {x \in S \X S : x[1] # x[2]}

\* one video with two cues of different text, or two videos with a cue each
NameStores ==
    {[k \in {p} |-> NameEntry(p, <<NameCue(1, tt[1]), NameCue(2, tt[2])>>)] :
        p \in NamePaths, tt \in DistinctPairs(NameTexts)}
    \cup {[k \in {pp[1], pp[2]} |->
              NameEntry(k, <<NameCue(1, IF k = pp[1] THEN t1 ELSE t2)>>)] :
            pp \in DistinctPairs(NamePaths), t1 \in NameTexts, t2 \in NameTexts}

NamesInit ==
    /\ now = MaxNow
    /\ fs = [p \in NamePaths |-> FileMeta(SecNs(1), SecNs(1))]
    /\ db \in NameStores
    /\ file = FAbsent
    /\ last = NoCall
    /\ pc = "scan"
    /\ status = "running"
    /\ todo = <<>>
    /\ scan_log = <<>>
    /\ search_map = <<>>
    /\ selected = <<>>
    /\ search_results = <<>>
    /\ dup_reports = <<>>
    /\ workers = <<>>
    /\ clip_errors = <<>>
    /\ outfiles = {}
    /\ saves = 0

NamesNext ==
    \/ \E o \in KeyOrders(db) : Strings(o)
    \/ \E chosen \in SUBSET (DOMAIN search_map) :
          Cardinality(chosen) <= MaxSelect /\ Select(chosen)
    \/ \E o \in KeyOrders(db) : \E c \in BOOLEAN : SortDedup(o, c)
    \/ \E o \in KeyOrders(db) : \E c \in BOOLEAN : Resolve(o, c)
    \/ \E i \in DOMAIN workers : WorkerPrepare(i)

SpecNames == NamesInit /\ [][NamesNext]_vars

(***************************************************************************)
(* SpecDups: the sorting and the duplicate report of main() (lines 86-91)  *)
(* on every list the selector can return, up to a length                   *)
(***************************************************************************)
MaxSelected == 4

DupStrings == {<<"a">>, <<"b">>, TextHi}

DupsInit ==
    /\ now = 1
    /\ fs = [p \in Paths |-> AbsentMeta]
    /\ db = EmptyDB
    /\ file = FAbsent
    /\ last = NoCall
    /\ pc = "sort"
    /\ status = "running"
    /\ todo = <<>>
    /\ scan_log = <<>>
    /\ search_map = <<>>
    /\ selected \in SeqsUpTo(DupStrings, MaxSelected) \ {<<>>}
    /\ search_results = <<>>
    /\ dup_reports = <<>>
    /\ workers = <<>>
    /\ clip_errors = <<>>
    /\ outfiles = {}
    /\ saves = 0

DupsNext == \E o \in KeyOrders(db) : \E c \in BOOLEAN : SortDedup(o, c)

SpecDups == DupsInit /\ [][DupsNext]_vars

(***************************************************************************)
(* SpecScan: lookup_or_update on videos that are rewritten again and again *)
(* (every call rescans), with every outcome of the extraction and the      *)
(* parsing of up to MaxStreams subtitle streams                            *)
(***************************************************************************)
MaxStreams == 2

StreamOutcomes == {"ok", "extract_fail", "parse_fail"}

ScanOutcomes(n) ==
    {[fail |-> f, streams |-> <<>>] : f \in {"tempdir", "probe"}}
        \cup {[fail |-> "none", streams |-> st] :
                st \in SeqsUpTo(StreamOutcomes, n)}

\* the record of a scan: the call, what the tools did in it, what it logged
ScanCall(key, outcome, r) ==
    [n |-> 1 - last.n, op |-> "scan", key |-> key, ret |-> r.ret,
     cls |-> Classify(db, key, fs), scanned |-> r.scanned, touched |-> FALSE,
     again |-> FALSE, saved |-> NoneOpt, outcome |-> outcome,
     warns |-> r.warns]

ScanInit ==
    /\ now = MaxNow
    /\ fs = [p \in Paths |-> FileMeta(SecNs(MaxNow), SecNs(MaxNow))]
    /\ db = EmptyDB
    /\ file = FAbsent
    /\ last = NoCall
    /\ MainIdle

ScanVideo(key, outcome) ==
    LET r == lookup_or_update(db, key, fs, now, outcome)
    IN  /\ last' = ScanCall(key, outcome, r)
        /\ db' = r.db
        /\ UNCHANGED <<envVars, file, mainVars>>

ScanNext ==
    \E k \in Paths : \E o \in ScanOutcomes(MaxStreams) : ScanVideo(k, o)

SpecScan == ScanInit /\ [][ScanNext]_vars

(***************************************************************************)
(* SpecWalk: populate_db over input paths and the paths below input        *)
(* directories, some of them symlinks, until main has reported its errors  *)
(***************************************************************************)
MaxItems == 2

\* A path the iterator chain of populate_db meets: an input path (via
\* "input") or a path WalkDir yields below an input directory (via "walk").
\* symlink is what lstat says of the path itself; fs[path] is what stat
\* says, which follows the link.
WalkItem(path, via, symlink) == [path |-> path, via |-> via, symlink |-> symlink]

WalkItems == {WalkItem(p, v, l) : p \in Paths, v \in {"input", "walk"}, l \in BOOLEAN}

\* lines 132-141: Some(Ok(path)) for what metadata() calls a file, Some(Err)
\* when metadata() fails, None otherwise
only_files(item, meta) ==
    IF meta.kind = "absent" THEN Some(Err("metadata"))
    ELSE IF meta.kind = "file" THEN Some(Ok(item.path))
    ELSE NoneOpt

\* lines 159-170: what an input path contributes itself (the paths below an
\* input directory are items of their own)
input_entry(item, meta) ==
    IF item.symlink THEN Some(Err("No symlinks!"))
    ELSE IF meta.kind = "file" THEN Some(Ok(item.path))
    ELSE IF meta.kind = "dir" THEN NoneOpt
    ELSE Some(Err("neither symlink, file nor dir"))

movie_file(item, meta) ==
    IF item.via = "input" THEN input_entry(item, meta) ELSE only_files(item, meta)

pending_fail_fast(items, log) ==
    IF \E i \in DOMAIN log : ~log[i].ret.ok THEN <<>>
    ELSE SubSeq(items, Len(log) + 1, Len(items))

\* lines 178-184: map_ok / flatten_ok / collect_vec pull every item of the
\* chain, whatever the items before it gave
pending(items, log) == SubSeq(items, Len(log) + 1, Len(items))

\* the Err items of the Vec populate_db returns, in order
RECURSIVE Errors(_)
Errors(log) ==
    IF log = <<>> THEN <<>>
    ELSE (IF Head(log).ret.ok THEN <<>> ELSE <<Head(log).ret.err>>)
             \o Errors(Tail(log))

DirMeta == [kind |-> "dir", ctime |-> SecNs(1), mtime |-> SecNs(1)]

\* a video, a video dated beyond what i64 nanoseconds hold, nothing (or a
\* dangling link), a directory
WalkMetas ==
    {FileMeta(SecNs(1), SecNs(1)), FileMeta(SecNs(1), <<FarSec, 0>>),
     AbsentMeta, DirMeta}

WalkInit ==
    /\ now = MaxNow
    /\ fs \in [Paths -> WalkMetas]
    /\ db = EmptyDB
    /\ file = FAbsent
    /\ last = NoCall
    /\ pc = "scan"
    /\ status = "running"
    /\ todo \in {q \in SeqsUpTo(WalkItems, MaxItems) :
                   \A i, j \in DOMAIN q :
                       q[i].path = q[j].path => q[i].symlink = q[j].symlink}
    /\ scan_log = <<>>
    /\ search_map = <<>>
    /\ selected = <<>>
    /\ search_results = <<>>
    /\ dup_reports = <<>>
    /\ workers = <<>>
    /\ clip_errors = <<>>
    /\ outfiles = {}
    /\ saves = 0

\* one item of the chain: called tells whether lookup_or_update ran for it,
\* yields whether it gave an item of the returned Vec, ret that item (or
\* the Result of the call)
WalkStep(outcome) ==
    /\ pc = "scan"
    /\ pending(todo, scan_log) # <<>>
    /\ LET item == Head(pending(todo, scan_log))
           m == movie_file(item, fs[item.path])
       IN  IF m.some /\ m.v.ok
           THEN LET r == lookup_or_update(db, m.v.val, fs, now, outcome)
                IN  /\ Feasible(outcome, m.v.val)
                    /\ db' = r.db
                    /\ scan_log' = Append(scan_log,
                          [item |-> item, called |-> TRUE, yields |-> TRUE,
                           ret |-> r.ret])
           ELSE /\ outcome.fail = "probe"
                /\ db' = db
                /\ scan_log' = Append(scan_log,
                      [item |-> item, called |-> FALSE, yields |-> m.some,
                       ret |-> IF m.some THEN m.v ELSE Ok(NoneOpt)])
    /\ UNCHANGED <<envVars, file, last, pc, status, todo, search_map, selected,
                   search_results, dup_reports, workers, clip_errors,
                   outfiles, saves>>

\* lines 53-62: the errors are logged, main goes on to the selection
WalkEnd ==
    /\ pc = "scan"
    /\ pending(todo, scan_log) = <<>>
    /\ last' = [NoCall EXCEPT !.op = "populate_db"] @@ [warned |-> Errors(scan_log)]
    /\ pc' = "select"
    /\ UNCHANGED <<envVars, storeVars, status, todo, scan_log, search_map,
                   selected, search_results, dup_reports, workers,
                   clip_errors, outfiles, saves>>

WalkNext ==
    \/ MainEnv
    \/ \E o \in MainScanOutcomes : WalkStep(o)
    \/ WalkEnd

SpecWalk == WalkInit /\ [][WalkNext]_vars

(***************************************************************************)
(* SpecClip: ffmpeg::clip called again and again, on every pair of the     *)
(* cue times below, with every outcome of the encoder, in a clip directory *)
(* that may hold files already                                             *)
(***************************************************************************)
\* cue times: a second apart, half a second apart, across the minute and
\* the hour
ClipTimes ==
    {Timestamp(0, 0, 1, 0), Timestamp(0, 0, 1, 500), Timestamp(0, 0, 2, 0),
     Timestamp(0, 59, 59, 999), Timestamp(1, 0, 0, 0)}

ClipOutNames == {<<"x">>, <<"y">>}

ClipInit ==
    /\ now = 1
    /\ fs = [p \in Paths |-> FileMeta(SecNs(1), SecNs(1))]
    /\ db = EmptyDB
    /\ file = FAbsent
    /\ last = NoCall
    /\ pc = "idle"
    /\ status = "running"
    /\ todo = <<>>
    /\ scan_log = <<>>
    /\ search_map = <<>>
    /\ selected = <<>>
    /\ search_results = <<>>
    /\ dup_reports = <<>>
    /\ workers = <<>>
    /\ clip_errors = <<>>
    /\ outfiles \in SUBSET ClipOutNames
    /\ saves = 0

\* one call: last keeps the arguments, the files before, what was returned
\* and what the encoder was asked for
ClipCall(start, end, outfile, enc) ==
    LET args == ClipArgs(P1, outfile, start, end)
        r == clip(args, outfiles, enc)
    IN  /\ outfiles' = r.files
        /\ last' = [op |-> "clip", args |-> args, before |-> outfiles,
                    outcome |-> enc, ret |-> r.ret, enc |-> r.enc,
                    req |-> r.req]
        /\ UNCHANGED <<envVars, storeVars, pc, status, todo, scan_log,
                       search_map, selected, search_results, dup_reports,
                       workers, clip_errors, saves>>

ClipNext ==
    \E start \in ClipTimes : \E end \in ClipTimes :
        \E outfile \in ClipOutNames : \E enc \in EncOutcomes :
            ClipCall(start, end, outfile, enc)

SpecClip == ClipInit /\ [][ClipNext]_vars

(***************************************************************************)
(* Properties                                                              *)
(***************************************************************************)
CallStep(op) == last'.n # last.n /\ last'.op = op

\* C2 as stated: for an Entry with scan time T whose video path is a regular
\* file, has_changed returns No for every value of the relevant timestamp
\* (the later of ctime and mtime, in nanoseconds) below T, and Yes for every
\* value at or above T.
C2_Original ==
    (last.op = "has_changed" /\ fs[P1].kind = "file") =>
        /\ RelevantNs(fs[P1]) < db[P1].meta.time => last.ret = Ok("No")
        /\ RelevantNs(fs[P1]) >= db[P1].meta.time => last.ret = Ok("Yes")

\* C2 amended: when T, ctime and mtime are representable as i64 nanoseconds
\* and ctime and mtime are positive, has_changed returns No for a relevant
\* timestamp below T and Yes for one at or above T, equality included;
\* otherwise it returns an error and no classification.
C2_Staleness ==
    (last.op = "has_changed" /\ fs[P1].kind = "file") =>
        IF db[P1].meta.time \in I64Min..I64Max /\ Representable(fs[P1])
        THEN /\ RelevantNs(fs[P1]) < db[P1].meta.time => last.ret = Ok("No")
             /\ RelevantNs(fs[P1]) >= db[P1].meta.time => last.ret = Ok("Yes")
        ELSE ~last.ret.ok

\* the file's last change coincides with the scan time: Stale
C2_Witness ==
    /\ last.op = "has_changed"
    /\ fs[P1].kind = "file"
    /\ Representable(fs[P1])
    /\ RelevantNs(fs[P1]) = db[P1].meta.time
    /\ last.ret = Ok("Yes")

\* C3: when the video path does not exist or is not a regular file,
\* has_changed returns Gone, whatever the scan time and the timestamps.
C3_Gone ==
    (last.op = "has_changed" /\ fs[P1].kind # "file") => last.ret = Ok("Gone")

\* a directory with timestamps that overflow, and a scan time out of range
C3_Witness ==
    /\ last.op = "has_changed"
    /\ fs[P1].kind = "dir"
    /\ fs[P1].mtime[1] = FarSec
    /\ db[P1].meta.time > I64Max
    /\ last.ret = Ok("Gone")

\* C4 as stated: a second lookup_or_update of the same key, the file not
\* changed since the first, returns the Entry the first call returned and
\* does not rescan.
C4_Original ==
    [][(CallStep("lookup_or_update") /\ last'.again)
          => (last'.ret = last.ret /\ ~last'.scanned)]_vars

\* C4 amended: a second lookup_or_update of the same key, the file not
\* changed since the first and its relevant timestamp (ctime and mtime
\* positive and representable) earlier than the scan time of the Entry the
\* first call returned, returns that same Entry and does not rescan.
C4_IdempotentFresh ==
    [][(/\ CallStep("lookup_or_update")
        /\ last'.again
        /\ Representable(fs[last.key])
        /\ RelevantNs(fs[last.key]) < last.ret.val.v.meta.time)
          => (last'.ret = last.ret /\ ~last'.scanned)]_vars

\* the second call, after a first call that scanned
C4_Witness ==
    /\ last.op = "lookup_or_update"
    /\ last.again
    /\ last.cls = "Fresh"
    /\ ~last.scanned
    /\ last.ret = Ok(Some(db[last.key]))
    /\ db[last.key].sub_files # <<>>

\* C5: lookup_or_update of a key that is in the store and whose file is gone
\* removes the key and returns None; a lookup of a key that is not in the
\* store returns No; and a key enters the store only by a lookup_or_update
\* of that key that scans.
C5_GonePruning ==
    [][\A k \in Paths :
        /\ (CallStep("lookup_or_update") /\ last'.key = k
               /\ k \in DOMAIN db /\ fs[k].kind # "file")
             => (k \notin DOMAIN db' /\ last'.ret = Ok(NoneOpt))
        /\ (CallStep("lookup") /\ last'.key = k /\ k \notin DOMAIN db)
             => last'.ret = Ok(FoundNo)
        /\ (k \notin DOMAIN db /\ k \in DOMAIN db')
             => (CallStep("lookup_or_update") /\ last'.key = k /\ last'.scanned)
      ]_vars

\* a lookup_or_update has pruned the key of a deleted file
C5_Witness ==
    /\ last.op = "lookup_or_update"
    /\ last.cls = "Gone"
    /\ fs[last.key].kind = "absent"
    /\ last.ret = Ok(NoneOpt)
    /\ last.key \notin DOMAIN db

RescanCase(k) ==
    /\ CallStep("lookup_or_update")
    /\ last'.key = k
    /\ Classify(db, k, fs) \in {"Stale", "NotPresent"}

NewEntryStored(k) ==
    /\ k \in DOMAIN db'
    /\ db'[k].meta.time = now
    /\ db'[k].meta.video_path = k
    /\ last'.ret = Ok(Some(db'[k]))
    /\ last'.scanned

\* C6 as stated: after a lookup_or_update of a key that is Stale or
\* NotPresent the store holds, for that key, an Entry built in this call
\* (its scan time taken during the call), and the call returns it.
C6_Original == [][\A k \in Paths : RescanCase(k) => NewEntryStored(k)]_vars

\* C6 amended: after a lookup_or_update of a key that is Stale or NotPresent
\* the call either returns the Entry built in this call, which the store now
\* holds for the key in place of any previous one, or, the rescan failing as
\* a whole, returns an error and leaves the map as it was.
C6_RescanReplaces ==
    [][\A k \in Paths : RescanCase(k) =>
          IF last'.ret.ok THEN NewEntryStored(k)
          ELSE db' = db /\ last'.scanned]_vars

\* a stale Entry has been replaced by one scanned later
C6_Witness ==
    /\ last.op = "lookup_or_update"
    /\ last.cls = "Stale"
    /\ last.scanned
    /\ last.ret = Ok(Some(db[last.key]))
    /\ db[last.key].meta.time = now
    /\ now > 1

\* C7: lookup changes neither the entry map nor the backing file, whatever it
\* returns.
C7_LookupPure ==
    [][CallStep("lookup") => (db' = db /\ file' = file)]_vars

\* lookup has reported a key whose file is gone, and the key is still there
C7_Witness ==
    /\ last.op = "lookup"
    /\ last.cls = "Gone"
    /\ last.ret = Ok(YesButGone)
    /\ last.key \in DOMAIN db

\* C10: save followed by load of the same backing path, the file system
\* letting the file be created and opened, yields a map equal to the map
\* saved.
C10_RoundTrip ==
    (last.op = "load" /\ last.saved.some) => last.ret = Ok(last.saved.v)

\* ffmpeg::clip has been called for the item
Invoked(w) == w.st = "done" /\ w.args.some

HasDuplicate(strs) == \E i, j \in DOMAIN strs : i < j /\ strs[i] = strs[j]

\* C1: whenever the list the selector returned holds some identifying string
\* more than once, ffmpeg::clip is invoked for no selection and no clip file
\* is produced in the run.
C1_DuplicateAborts ==
    HasDuplicate(selected) =>
        /\ \A i \in DOMAIN workers : ~Invoked(workers[i])
        /\ outfiles = {}

\* C8: when main() has returned from the clip phase every item has run to
\* its end, whatever the other items returned: ffmpeg::clip was invoked for
\* every item whose re-validation found the entry fresh, an item that ended
\* well has its clip file, and exactly one error is logged per failing item
\* and none for the others.
C8_Isolation ==
    (pc = "exit" /\ workers # <<>>) =>
        \A i \in DOMAIN workers :
            /\ workers[i].st = "done"
            /\ workers[i].found = "Yes" => Invoked(workers[i])
            /\ workers[i].res = "ok" => workers[i].args.v.outfile \in outfiles
            /\ clip_errors[i] = (IF workers[i].res = "err" THEN 1 ELSE 0)

\* one item failed re-validation, its video rewritten or deleted after the
\* selection, and another was clipped
C8_Witness ==
    /\ pc = "exit"
    /\ \E i, j \in DOMAIN workers :
          /\ workers[i].found \in {"YesButGone", "YesButChanged"}
          /\ workers[i].res = "err"
          /\ clip_errors[i] = 1
          /\ \A k \in DOMAIN workers : k # i => workers[k].res = "ok"
          /\ workers[j].enc = "ok"
          /\ workers[j].args.v.outfile \in outfiles

\* the item leaves the re-validation towards ffmpeg::clip with arguments
\* taken from the entry e
ClipsFrom(w, e) ==
    /\ w.st = "validated"
    /\ w.found = "Yes"
    /\ w.entry = Some(e)
    /\ w.args.some
    /\ w.args.v.infile = e.meta.video_path
    /\ \E c \in matching_cues(e, w.key, w.line) :
          /\ w.args.v.start = c.start_time
          /\ w.args.v.end = c.end_time
          /\ w.args.v.outfile =
                as_identifying_string(c, e.meta.video_path, "Filename")

\* the item ends in an error, ffmpeg::clip not invoked
EndsUnclipped(w) ==
    w.st = "done" /\ w.res = "err" /\ ~w.args.some /\ w.enc = "-"

\* C9: an item goes on to ffmpeg::clip only if the lookup of its key, at
\* that step, finds the entry fresh, and then with the source path and a cue
\* of that entry; if the lookup finds the file gone or changed, or fails,
\* the item ends in an error and no encoder runs for it; and an encoder runs
\* only for an item so validated.
C9_Revalidation ==
    [][\A i \in DOMAIN workers :
        /\ (workers[i].st = "ready" /\ workers'[i].st # "ready") =>
              IF Classify(db, workers[i].key, fs) = "Fresh"
              THEN ClipsFrom(workers'[i], db[workers[i].key])
              ELSE /\ EndsUnclipped(workers'[i])
                   /\ workers'[i].found \in {"YesButGone", "YesButChanged", "Err"}
        /\ workers'[i].enc # workers[i].enc =>
              workers[i].st = "validated" /\ workers[i].found = "Yes"
      ]_vars

\* one item was clipped from its validated entry, another was stopped by a
\* file that changed after the scan
C9_Witness ==
    \E i, j \in DOMAIN workers :
        /\ workers[i].found = "Yes"
        /\ workers[i].enc = "ok"
        /\ workers[i].args.v.infile = workers[i].key
        /\ workers[j].found = "YesButChanged"
        /\ EndsUnclipped(workers[j])
\* the second run is past its load
SecondRunLoaded == last.op = "run" /\ last.n = 1 /\ pc # "load"

\* C11: when a first run has scanned a video and ended normally, and a
\* second run on the same backing file starts while the video is untouched
\* (its timestamps earlier than the scan time of the entry saved), the
\* second run loads the store, holds the saved entry of the video and keeps
\* it as it is through its scan phase: Entry::from_path is not invoked for it.
C11_CacheHit ==
    SecondRunLoaded =>
        \A k \in DOMAIN last.saved.v :
            Classify(last.saved.v, k, fs) = "Fresh" =>
                /\ status # "err"
                /\ k \in DOMAIN db
                /\ db[k] = last.saved.v[k]
\* the backing file carries a schema tag other than the current one, and
\* the run is past its load
OtherTagLoaded == file.kind = "json" /\ file.tag # CurrentTag /\ pc # "load"

NothingRan ==
    /\ pc = "exit"
    /\ db = EmptyDB
    /\ scan_log = <<>>
    /\ search_map = <<>>
    /\ selected = <<>>
    /\ workers = <<>>
    /\ outfiles = {}
    /\ saves = 0

\* C12 as stated: when the backing file carries a schema tag other than the
\* current one, load panics, and no scan, selection or clip step runs.
C12_Original == OtherTagLoaded => (status = "panic" /\ NothingRan)

\* C12 amended: when the backing file carries a schema tag other than the
\* current one, load returns no entry map and the run ends there, without a
\* scan, selection, clip or save: by a panic only if nothing but the tag is
\* in the file, and by an error that main returns if the tag carries
\* content (or the file cannot be opened).
C12_UnsupportedFatal ==
    OtherTagLoaded =>
        /\ NothingRan
        /\ status \in {"panic", "err"}
        /\ status = "panic" => file.shape = "unit"
        /\ file.shape # "unit" => status = "err"

\* a file holding the tag "0.1" alone has made load panic
C12_Witness ==
    /\ OtherTagLoaded
    /\ file.shape = "unit"
    /\ status = "panic"
    /\ pc = "exit"

\* C13: save is executed exactly once in a run whose load succeeded, as the
\* last step of the run: when it runs the scan phase and the string
\* generation are over and every clip worker has ended, it leaves the entry
\* map as it is, every way out of a loaded run goes through it, and nothing
\* runs after it.
C13_PersistOnceLast ==
    [][/\ saves' # saves =>
            /\ saves = 0 /\ saves' = 1
            /\ pc \notin {"load", "exit"} /\ pc' = "exit"
            /\ todo = <<>>
            /\ \A i \in DOMAIN workers : workers[i].st = "done"
            /\ db' = db
       /\ (pc \notin {"load", "exit"} /\ pc' = "exit") => saves' = 1
       /\ pc # "exit"
      ]_vars

\* a run with clip workers has ended and saved once
C13_Witness ==
    /\ pc = "exit"
    /\ saves = 1
    /\ Len(workers) >= 2
    /\ \A i \in DOMAIN workers : workers[i].st = "done"
    /\ db # EmptyDB

\* C14: any two different cues of the store, those of two subtitle streams
\* of one video included, have different identifying strings: no string
\* occurs at two positions of the list as_identifying_strings yields.
C14_Injective ==
    \A i, j \in DOMAIN search_map :
        i # j => search_map[i][2] # search_map[j][2]

\* C15: within one batch, two different selected identifying strings are
\* given different output files, so that no two clip workers write the same
\* file.
C15_DistinctTargets ==
    \A i, j \in DOMAIN workers :
        (/\ workers[i].args.some
         /\ workers[j].args.some
         /\ workers[i].line # workers[j].line)
            => workers[i].args.v.outfile # workers[j].args.v.outfile
\* how often x occurs in what the selector returned
Occurs(x) == Cardinality({i \in DOMAIN selected : selected[i] = x})

ReportsOf(x) == {r \in DOMAIN dup_reports : dup_reports[r][2] = x}

\* C16: once the selection is sorted and counted, every string that occurs
\* k > 1 times in the selector's result, wherever in it, has exactly one
\* report, which carries the count k, a string that occurs once has none,
\* and nothing else is reported.
C16_DuplicateReports ==
    pc = "resolve" =>
        /\ \A i \in DOMAIN selected :
              Cardinality(ReportsOf(selected[i])) =
                  (IF Occurs(selected[i]) > 1 THEN 1 ELSE 0)
        /\ \A r \in DOMAIN dup_reports :
              /\ dup_reports[r][1] = Occurs(dup_reports[r][2])
              /\ dup_reports[r][1] > 1

\* a string selected twice with another one between, and one selected once
C16_Witness ==
    /\ pc = "resolve"
    /\ Len(selected) = 3
    /\ selected[1] = selected[3]
    /\ selected[1] # selected[2]
    /\ dup_reports = <<<<2, selected[1]>>>>
\* the 0-based indices of the streams of a scan with the given outcome
StreamsWith(streams, outs) ==
    {i \in 0..(Len(streams) - 1) : streams[i + 1] \in outs}

\* the latest call was a scan in which ffprobe listed the streams
Rescanned == last.op = "scan" /\ last.scanned /\ last.outcome.fail = "none"

\* C17: after a rescan in which extraction or parsing failed for some of
\* the subtitle streams, one error per failed stream has been logged, and
\* the store holds the new Entry, which the call returns, with exactly the
\* streams that succeeded, each under its stream index and with its cues.
C17_PerSourceFailures ==
    Rescanned =>
        LET streams == last.outcome.streams
            good == StreamsWith(streams, {"ok"})
            bad == StreamsWith(streams, {"extract_fail", "parse_fail"})
            subs == db[last.key].sub_files
        IN  /\ last.ret = Ok(Some(db[last.key]))
            /\ Len(last.warns) = Cardinality(bad)
            /\ Len(subs) = Cardinality(good)
            /\ \A i \in good : \E j \in DOMAIN subs :
                  subs[j] = <<InternalFFmpeg(i), StreamCues(last.key, i)>>
\* the item is one lookup_or_update is to be called for
IsCandidate(item) == movie_file(item, fs[item.path]) = Some(Ok(item.path))

\* the index of the latest call of lookup_or_update for key, 0 if none
LatestCall(key) ==
    LET calls == {i \in DOMAIN scan_log :
                    scan_log[i].called /\ scan_log[i].item.path = key}
    IN  IF calls = {} THEN 0
        ELSE CHOOSE i \in calls : \A j \in calls : j <= i

NanosOverflow == Err("nanos not fitting in i64")

C19_SymlinksSkipped ==
    \A i \in DOMAIN scan_log :
        scan_log[i].item.symlink =>
            /\ ~scan_log[i].called
            /\ scan_log[i].yields
            /\ ~scan_log[i].ret.ok

\* C20: once lookup_or_update has failed on a timestamp that does not fit
\* i64 nanoseconds, no further item is taken and main does not go on to
\* the selection.
C20_OverflowFatal ==
    \A i \in DOMAIN scan_log :
        scan_log[i].ret = NanosOverflow =>
            i = Len(scan_log) /\ pc # "select"

\* C21: the entry map changes only in the scan phase, and there only into
\* what lookup_or_update makes of it for the candidate at hand; from the
\* end of the scan phase on (string generation, selection, correlation,
\* every step of every clip worker, the save) the map stays as it is.
C21_SingleWriter ==
    [][/\ pc \notin {"load", "scan"} => db' = db
       /\ (pc = "scan" /\ db' # db) =>
             /\ todo # <<>>
             /\ \E o \in MainScanOutcomes :
                   db' = lookup_or_update(db, Head(todo), fs, now, o).db]_vars

C21_Witness ==
    /\ pc = "exit"
    /\ status = "ok"
    /\ \E i, j \in DOMAIN workers :
          /\ workers[i].found = "YesButGone"
          /\ workers[i].key \in DOMAIN db
          /\ workers[j].res = "ok"

\* the latest step was a call of ffmpeg::clip
Clipped == last.op = "clip"

\* C22: ffmpeg::clip with end <= start returns an error, the encoder is not
\* invoked and the files are as before; with end > start the encoder is
\* asked for the range that starts at start ("-ss") and lasts end - start
\* ("-t"), both written as HH:MM:SS.mmm.
C22_CuttableOnly ==
    Clipped =>
        LET a == last.args
        IN  IF Millis(a.end) <= Millis(a.start)
            THEN /\ ~last.ret.ok
                 /\ last.enc = "-"
                 /\ ~last.req.some
                 /\ outfiles = last.before
            ELSE /\ last.req.some
                 /\ last.req.v.infile = a.infile
                 /\ last.req.v.ss = timestamp_to_string(a.start)
                 /\ last.req.v.t =
                       timestamp_to_string(FromMillis(Millis(a.end) - Millis(a.start)))

C22_Witness ==
    /\ Clipped
    /\ last.args.start = Timestamp(0, 59, 59, 999)
    /\ last.args.end = Timestamp(1, 0, 0, 0)
    /\ last.req = Some(EncoderRequest(P1, last.args.outfile,
                        <<"0", "0", ":", "5", "9", ":", "5", "9", ".", "9", "9", "9">>,
                        <<"0", "0", ":", "0", "0", ":", "0", "0", ".", "0", "0", "1">>))

C24_SourceIdentity ==
    Rescanned =>
        LET subs == db[last.key].sub_files
        IN  \A j \in DOMAIN subs :
                /\ subs[j][1].variant = "InternalFFmpeg"
                /\ subs[j][2] = StreamCues(last.key, subs[j][1].stream_id)

\* C25: a call of lookup_or_update(k), whatever it returns, leaves every
\* key other than k as it was: present with the same Entry, or absent; so
\* also the entries of files that are gone or changed and are not visited.
C25_OwnKeyOnly ==
    [][CallStep("lookup_or_update") =>
         \A k \in Paths \ {last'.key} :
             /\ (k \in DOMAIN db') = (k \in DOMAIN db)
             /\ k \in DOMAIN db => db'[k] = db[k]]_vars

C25_Witness ==
    /\ last.op = "lookup_or_update"
    /\ last.ret = Ok(NoneOpt)
    /\ last.key \notin DOMAIN db
    /\ \E k \in DOMAIN db : fs[k].kind = "absent"

\* C26: a call of lookup_or_update that returns an error (the
\* classification failed, or the rescan failed as a whole) leaves the map
\* exactly as it was; a stale Entry of the key is still there, unchanged.
C26_FailedRescanKeeps ==
    [][(CallStep("lookup_or_update") /\ ~last'.ret.ok) => db' = db]_vars

C26_Witness ==
    /\ last.op = "lookup_or_update"
    /\ last.cls = "Stale"
    /\ last.scanned
    /\ ~last.ret.ok
    /\ last.key \in DOMAIN db

\* C27: the step of SubDB::load leaves the backing file as it is and saves
\* nothing; when load returns no store (the file cannot be opened, its
\* content cannot be deserialized, its schema tag is not the current one)
\* the run ends with that step, so that no save ever runs and the file
\* keeps the content it had before the run.
C27_FailedLoadKeepsFile ==
    [][/\ pc = "load" =>
            /\ file' = file
            /\ saves' = 0
            /\ (\A c \in BOOLEAN : ~load(file, c).ok) => pc' = "exit"
            /\ pc' = "exit" =>
                  /\ \E c \in BOOLEAN : ~load(file, c).ok
                  /\ status' \in {"err", "panic"}
            /\ pc' \in {"exit", "scan"}
       /\ pc # "exit"
      ]_vars

C27_Witness ==
    /\ pc = "exit"
    /\ status = "err"
    /\ saves = 0
    /\ file = FDoc(CurrentTag, "object", <<>>, FALSE)

\* C28: when the selector fails after the scan phase, main returns the
\* error and the store is saved exactly once on the way out: unless the
\* backing file could not be created (which is only logged), the file then
\* holds the store as it is after the scan phase, so that loading it gives
\* that store again.
C28_ScanSurvivesFailedSelect ==
    [][(pc = "select" /\ pc' = "exit") =>
          /\ status' = "err"
          /\ saves' = saves + 1
          /\ db' = db
          /\ file' = file \/ load(file', TRUE) = Ok(db)]_vars

\* the clip request of a cue of the video key
RequestFor(key, cue) ==
    ClipArgs(key, as_identifying_string(cue, key, "Filename"),
             cue.start_time, cue.end_time)

\* C29: the clip request prepared for a selected string is the only one
\* the store allows for it: every cue of the store that renders to the
\* string, under whatever key and in whatever subtitle stream, gives the
\* same source video, start time, end time and output path.
C29_DeterministicRequest ==
    \A i \in DOMAIN workers :
        workers[i].args.some =>
            \A key \in DOMAIN db :
                \A cue \in matching_cues(db[key], key, workers[i].line) :
                    RequestFor(key, cue) = workers[i].args.v
====
